---- MODULE Spec2Model ----
(***************************************************************************)
(* The secure event pipeline of CortexShade: two producer threads (camera, *)
(* audio), the persistence scheduler, the exit-key monitor and the main    *)
(* control path of CortexShadeSystem.start, the SecureLogger, the          *)
(* password-derived key with its salt file, and the admin audit            *)
(* (decrypt_suspicions).                                                   *)
(*                                                                         *)
(* Representation.  A text is a sequence of atoms; an atom is one          *)
(* character or one literal chunk of an f-string of the source.  Wall      *)
(* clock readings (time.time, time.strftime) are the single atom "T".      *)
(* An event (a Python dict) is a function from its keys to texts.  A file  *)
(* is a sequence: <<>> when the file does not exist, <<content>> when it   *)
(* does.                                                                   *)
(***************************************************************************)
EXTENDS Integers, Sequences, FiniteSets, TLC

VARIABLES
    running,        \* self.running                               main.py:36
    lock,           \* holder of self.lock: "free","cam","aud","sched"  main.py:35
    suspicions,     \* self.suspicions: [video, audio]            main.py:34
    appended,       \* completed store appends per category
    key,            \* self.key, the session key                  main.py:24
    saltFile,       \* salt.bin
    nextSalt,       \* the next value os.urandom hands out
    derived,        \* keys returned by derive_key_from_password so far
    log,            \* secure_logs.jsonl: one ciphertext per line
    plainFile,      \* suspicions.json
    encFile,        \* suspicions.json.encrypted
    console,        \* diagnostics printed so far (as a set of tags)
    camPc, capOpen, cheating_score, camScore, camEvent, screenshots, scoreDb,
    audPc, audEvent,
    schedPc,
    monPc,
    mainPc, retentionCalls,
    audit,          \* what the admin process printed
    logPos,         \* file position of each producer's open log handle
    probe           \* argument and results of a function called on its own

vars == <<running, lock, suspicions, appended, key, saltFile, nextSalt, derived,
          log, plainFile, encFile, console,
          camPc, capOpen, cheating_score, camScore, camEvent, screenshots, scoreDb,
          audPc, audEvent, schedPc, monPc, mainPc, retentionCalls, audit,
          logPos, probe>>

(***************************************************************************)
(* Bounds of the model.                                                    *)
(***************************************************************************)
MaxVideo == 2
MaxAudio == 1
MaxScore == 1
MaxSalts == 4
MaxTestLines == 1

\* The passwords an administrator may type; the session was started with
\* the first one (the two are interchangeable).
Passwords == {"A", "B"}
SessionPassword == "A"
student_id == "student1"

(***************************************************************************)
(* redact.py                                                               *)
(***************************************************************************)
Marker == <<"s", "e", "c", "r", "e", "t">>
Placeholder == <<"[", "R", "E", "D", "A", "C", "T", "E", "D", "]">>

StartsWith(t, m) == Len(t) >= Len(m) /\ SubSeq(t, 1, Len(m)) = m

\* str.replace(old, new): left to right, non-overlapping occurrences.
RECURSIVE Replace(_, _, _)
Replace(t, old, new) ==
    IF t = <<>> THEN <<>>
    ELSE IF StartsWith(t, old)
         THEN new \o Replace(SubSeq(t, Len(old) + 1, Len(t)), old, new)
         ELSE <<Head(t)>> \o Replace(Tail(t), old, new)

redact_deleting(text) == Replace(text, Marker, <<>>)

redact(text) == Replace(text, Marker, Placeholder)

(***************************************************************************)
(* schemas.py                                                              *)
(***************************************************************************)
required_keys == <<"id", "timestamp", "data">>

validate_without_data(event) ==
    \A i \in 1..2 : required_keys[i] \in DOMAIN event

validate_with_logged_at(event) ==
    \A k \in {"id", "timestamp", "data", "logged_at"} : k \in DOMAIN event

validate(event) ==
    \A i \in 1..Len(required_keys) : required_keys[i] \in DOMAIN event

(***************************************************************************)
(* json.dumps / json.dump / json.loads on the values this program          *)
(* serialises: an object becomes the ordered list of its members (keys in  *)
(* insertion order), a list the sequence of its elements.                  *)
(***************************************************************************)
KeyOrder == <<"id", "timestamp", "data", "logged_at">>

JsonObject(event) ==
    LET ks == SelectSeq(KeyOrder, LAMBDA k : k \in DOMAIN event)
    IN  [i \in 1..Len(ks) |-> <<ks[i], event[ks[i]]>>]

JsonList(events) == [i \in 1..Len(events) |-> JsonObject(events[i])]

json_dump_no_audio(s) ==
    <<<<"video", JsonList(s.video)>>, <<"audio", <<>>>>>>

json_dump(s) ==
    <<<<"video", JsonList(s.video)>>, <<"audio", JsonList(s.audio)>>>>

LoadObject(members) ==
    [k \in {members[i][1] : i \in 1..Len(members)} |->
        LET i == CHOOSE j \in 1..Len(members) :
                    /\ members[j][1] = k
                    /\ \A l \in (j+1)..Len(members) : members[l][1] # k
        IN  members[i][2]]

LoadList(items) == [i \in 1..Len(items) |-> LoadObject(items[i])]

json_loads(text) ==
    [k \in {text[i][1] : i \in 1..Len(text)} |->
        LET i == CHOOSE j \in 1..Len(text) : text[j][1] = k
        IN  LoadList(text[i][2])]

(***************************************************************************)
(* crypto.py: Fernet.  A token carries the key it was made with; decrypt   *)
(* authenticates the token against its own key and raises InvalidToken     *)
(* otherwise.                                                              *)
(***************************************************************************)
encrypt(k, text) == [key |-> k, body |-> text]

decrypt_unauthenticated(k, token) == [ok |-> TRUE, text |-> token.body]

decrypt(k, token) ==
    IF token.key = k THEN [ok |-> TRUE, text |-> token.body]
                     ELSE [ok |-> FALSE, text |-> <<>>]

(***************************************************************************)
(* key_manager.py                                                          *)
(***************************************************************************)
\* PBKDF2-HMAC-SHA256 followed by base64: a function of (password, salt)
\* with no collisions.
kdf_ignores_password(password, salt) == <<"A", salt>>

kdf(password, salt) == <<password, salt>>

\* Lines 14-20: the salt used and the salt file afterwards.
load_or_create_salt_regenerating(file, fresh) ==
    [salt |-> fresh, file |-> <<fresh>>, created |-> TRUE]

load_or_create_salt(file, fresh) ==
    IF file # <<>>
    THEN [salt |-> file[1], file |-> file, created |-> FALSE]
    ELSE [salt |-> fresh, file |-> <<fresh>>, created |-> TRUE]

derive_key_from_password(password, file, fresh) ==
    LET s == load_or_create_salt(file, fresh)
    IN  [key |-> kdf(password, s.salt), file |-> s.file, created |-> s.created,
         call |-> [password |-> password, salt |-> s.salt,
                   key |-> kdf(password, s.salt)]]

(***************************************************************************)
(* secure_logger.py                                                        *)
(***************************************************************************)
Stamp(event) ==
    [k \in DOMAIN event \cup {"logged_at"} |->
        IF k = "logged_at" THEN <<"T">> ELSE event[k]]

\* log_event: the event afterwards, the lines appended, what is printed.
log_event_stamps_first(k, event) ==
    IF ~validate(event)
    THEN [event |-> Stamp(event), lines |-> <<>>, printed |-> {"invalid_schema"}]
    ELSE [event |-> Stamp(event),
          lines |-> <<encrypt(k, JsonObject(Stamp(event)))>>,
          printed |-> {}]

log_event(k, event) ==
    IF ~validate(event)
    THEN [event |-> event, lines |-> <<>>, printed |-> {"invalid_schema"}]
    ELSE [event |-> Stamp(event),
          lines |-> <<encrypt(k, JsonObject(Stamp(event)))>>,
          printed |-> {}]

(***************************************************************************)
(* main.py: the events the producers build                                 *)
(***************************************************************************)
camera_event(score) ==
    [id |-> <<student_id, "_cam_", "T">>,
     timestamp |-> <<"T">>,
     data |-> redact(<<"Camera suspicion score: ", ToString(score)>>)]

\* classify_audio returns an accepted label or "silence"; one of each kind.
Labels == {"whisper", "silence"}
AcceptedLabels == {"whisper", "background_talk", "tapping", "normal_talk"}

audio_event(label) ==
    [id |-> <<student_id, "_aud_", "T">>,
     timestamp |-> <<"T">>,
     data |-> redact(<<"Audio event: ", label, " | Reasons: ", "reasons">>)]

\* main.py:60-65 for any text the classifier hands over as reasons
audio_event_unredacted(label, reasons) ==
    [id |-> <<student_id, "_aud_", "T">>,
     timestamp |-> <<"T">>,
     data |-> <<"Audio event: ", label, " | Reasons: ">> \o reasons]

audio_event_with(label, reasons) ==
    [id |-> <<student_id, "_aud_", "T">>,
     timestamp |-> <<"T">>,
     data |-> redact(<<"Audio event: ", label, " | Reasons: ">> \o reasons)]

store_append_in_front(events, event) == <<event>> \o events

store_append_overwrite(events, event) == <<event>>

store_append(events, event) == Append(events, event)

NoEvent == <<>>

(***************************************************************************)
(* admin_control.py: decrypt_suspicions, as what it prints.  `shots` is    *)
(* the screenshots directory: <<>> when there is none, else <<n>> with n   *)
(* the number of .jpg files in it.                                         *)
(***************************************************************************)
NoAudit ==
    [status |-> "none", password |-> "", log |-> <<>>, scores |-> <<>>,
     replay |-> "none"]

\* admin_control.py:26-30 without the os.path.exists test: os.listdir raises
\* FileNotFoundError, which line 63 reports as the missing snapshot file
video_score_unguarded(shots) ==
    IF shots = <<>> THEN -1 ELSE shots[1]

\* admin_control.py:26-30; below, a negative value stands for the listing
\* having raised
video_score(shots) ==
    IF shots = <<>> THEN 0 ELSE shots[1]

audio_score_from_video(data) ==
    IF "video" \in DOMAIN data THEN Len(data.video) ELSE 0

\* admin_control.py:33
audio_score(data) ==
    IF "audio" \in DOMAIN data THEN Len(data.audio) ELSE 0

decrypt_suspicions(password, k, file, shots) ==
    IF file = <<>>
    THEN [status |-> "not_found", password |-> password, log |-> <<>>,
          scores |-> <<>>, replay |-> "none"]
    ELSE LET r == decrypt(k, file[1])
         IN  IF ~r.ok
             THEN [status |-> "error", password |-> password, log |-> <<>>,
                   scores |-> <<>>, replay |-> "none"]
             ELSE LET data == json_loads(r.text)
                      v == video_score(shots)
                      a == audio_score(data)
                  IN  IF v < 0
                      THEN [status |-> "not_found", password |-> password,
                            log |-> <<data>>, scores |-> <<>>, replay |-> "none"]
                      ELSE [status |-> "ok", password |-> password,
                            log |-> <<data>>, scores |-> <<v, a, v + a>>,
                            replay |-> IF v > 0 THEN "shown" ELSE "no_screenshots"]

(***************************************************************************)
(* The state after CortexShadeSystem.__init__ (main.py:22-36), on a        *)
(* machine with no files of an earlier session.                            *)
(***************************************************************************)
Init ==
        LET d == derive_key_from_password(SessionPassword, <<>>, 1)
        IN  /\ key = d.key
            /\ saltFile = d.file
            /\ nextSalt = 2
            /\ derived = {d.call}
            /\ running = TRUE
            /\ lock = "free"
            /\ suspicions = [video |-> <<>>, audio |-> <<>>]
            /\ appended = [video |-> 0, audio |-> 0]
            /\ log = <<>>
            /\ plainFile = <<>>
            /\ encFile = <<>>
            /\ console = {}
            /\ camPc = "check" /\ capOpen = TRUE /\ cheating_score = 0
            /\ camScore = 0 /\ camEvent = NoEvent /\ screenshots = <<0>> /\ scoreDb = <<>>
            /\ audPc = "check" /\ audEvent = NoEvent
            /\ schedPc = "check"
            /\ monPc = "poll"
            /\ mainPc = "wait" /\ retentionCalls = 0
            /\ audit = NoAudit
            /\ logPos = [cam |-> 0, aud |-> 0]
            /\ probe = <<>>

\* The daemon threads live until the main thread returns from start().
Alive == mainPc # "exit"

keyVars == <<key, saltFile, nextSalt, derived>>
fileVars == <<log, plainFile, encFile>>
camVars == <<camPc, capOpen, cheating_score, camScore, camEvent, screenshots, scoreDb>>
audVars == <<audPc, audEvent>>
mainVars == <<mainPc, retentionCalls, audit>>
auxVars == <<logPos, probe>>

(***************************************************************************)
(* run_camera (main.py:38-51) with CameraDetector.run                      *)
(***************************************************************************)
\* main.py:39-40.  A call of camera.run on a released capture skips the
\* frame loop and returns through the finally block at once.
CameraLoopCheck ==
    /\ Alive /\ camPc = "check"
    /\ IF ~running
       THEN /\ camPc' = "exited"
            /\ UNCHANGED <<capOpen, cheating_score, camScore, camEvent, screenshots, scoreDb>>
       ELSE /\ Len(suspicions.video) < MaxVideo
            /\ IF capOpen
               THEN /\ camPc' = "run"
                    /\ UNCHANGED <<camScore, scoreDb>>
               ELSE /\ camPc' = "scored"
                    /\ camScore' = cheating_score
                    /\ scoreDb' = <<cheating_score>>
            /\ UNCHANGED <<capOpen, cheating_score, camEvent, screenshots>>
    /\ UNCHANGED <<running, lock, suspicions, appended, keyVars, auxVars, fileVars, console,
                   audVars, schedPc, monPc, mainVars>>

\* neurosentinel_camera.py:152-194: one frame that raises the score.
CameraDetect ==
    /\ Alive /\ camPc = "run"
    /\ cheating_score < MaxScore
    /\ cheating_score' = cheating_score + 1
    /\ screenshots' = IF screenshots = <<>> THEN <<>> ELSE <<screenshots[1] + 1>>
    /\ UNCHANGED <<camPc, capOpen, camScore, camEvent, scoreDb>>
    /\ UNCHANGED <<running, lock, suspicions, appended, keyVars, auxVars, fileVars, console,
                   audVars, schedPc, monPc, mainVars>>

\* neurosentinel_camera.py:110-211: a frame that raises nothing; the frame
\* loop goes on (it never reads self.running of the system).
CameraFrame ==
    /\ Alive /\ camPc = "run"
    /\ UNCHANGED vars

\* neurosentinel_camera.py:111-113, 135-141, 211-230: a failed read, ESC or
\* 'p' ends the frame loop; the finally block releases the capture and
\* writes the score database; run returns the score.
\* (CameraRunEnd_clears_flag: the end of the frame loop taken as the end of
\* the session.)
CameraRunEnd_clears_flag ==
    /\ Alive /\ camPc = "run"
    /\ running' = FALSE
    /\ capOpen' = FALSE
    /\ scoreDb' = <<cheating_score>>
    /\ camScore' = cheating_score
    /\ camPc' = "scored"
    /\ UNCHANGED <<cheating_score, camEvent, screenshots>>
    /\ UNCHANGED <<lock, suspicions, appended, keyVars, auxVars, fileVars, console,
                   audVars, schedPc, monPc, mainVars>>

CameraRunEnd ==
    /\ Alive /\ camPc = "run"
    /\ capOpen' = FALSE
    /\ scoreDb' = <<cheating_score>>
    /\ camScore' = cheating_score
    /\ camPc' = "scored"
    /\ UNCHANGED <<cheating_score, camEvent, screenshots>>
    /\ UNCHANGED <<running, lock, suspicions, appended, keyVars, auxVars, fileVars, console,
                   audVars, schedPc, monPc, mainVars>>

\* main.py:41-49
CameraLog ==
    /\ Alive /\ camPc = "scored"
    /\ IF camScore > 0
       THEN LET r == log_event(key, camera_event(camScore))
            IN  /\ log' = log \o r.lines
                /\ console' = console \cup r.printed
                /\ camEvent' = <<r.event>>
                /\ camPc' = "lock"
       ELSE /\ camPc' = "check"
            /\ UNCHANGED <<log, console, camEvent>>
    /\ UNCHANGED <<capOpen, cheating_score, camScore, screenshots, scoreDb>>
    /\ UNCHANGED <<running, lock, suspicions, appended, keyVars, auxVars, plainFile, encFile,
                   audVars, schedPc, monPc, mainVars>>

\* main.py:50
CameraAcquire ==
    /\ Alive /\ camPc = "lock"
    /\ lock = "free"
    /\ lock' = "cam"
    /\ camPc' = "append"
    /\ UNCHANGED <<capOpen, cheating_score, camScore, camEvent, screenshots, scoreDb>>
    /\ UNCHANGED <<running, suspicions, appended, keyVars, auxVars, fileVars, console,
                   audVars, schedPc, monPc, mainVars>>

\* main.py:51 and the end of the with block
CameraAppend ==
    /\ Alive /\ camPc = "append"
    /\ suspicions' = [suspicions EXCEPT !.video = store_append(@, camEvent[1])]
    /\ appended' = [appended EXCEPT !.video = @ + 1]
    /\ lock' = "free"
    /\ camEvent' = NoEvent
    /\ camPc' = "check"
    /\ UNCHANGED <<capOpen, cheating_score, camScore, screenshots, scoreDb>>
    /\ UNCHANGED <<running, keyVars, auxVars, fileVars, console, audVars, schedPc, monPc, mainVars>>

\* run_camera has no try: an exception raised by the camera collaborator
\* (after its finally block) or by the logger ends the thread.
CameraRaise ==
    /\ Alive
    /\ \/ /\ camPc = "run"
          /\ capOpen' = FALSE
          /\ scoreDb' = <<cheating_score>>
       \/ /\ camPc = "scored" /\ camScore > 0
          /\ UNCHANGED <<capOpen, scoreDb>>
    /\ camPc' = "dead"
    /\ UNCHANGED <<cheating_score, camScore, camEvent, screenshots>>
    /\ UNCHANGED <<running, lock, suspicions, appended, keyVars, auxVars, fileVars, console,
                   audVars, schedPc, monPc, mainVars>>

(***************************************************************************)
(* run_audio (main.py:53-71)                                               *)
(***************************************************************************)
AudioLoopCheck ==
    /\ Alive /\ audPc = "check"
    /\ IF ~running
       THEN audPc' = "exited"
       ELSE /\ Len(suspicions.audio) < MaxAudio
            /\ audPc' = "record"
    /\ UNCHANGED audEvent
    /\ UNCHANGED <<running, lock, suspicions, appended, keyVars, auxVars, fileVars, console,
                   camVars, schedPc, monPc, mainVars>>

\* main.py:56-67
AudioCycle ==
    /\ Alive /\ audPc = "record"
    /\ \E label \in Labels :
        IF label \in AcceptedLabels
        THEN LET r == log_event(key, audio_event(label))
             IN  /\ log' = log \o r.lines
                 /\ console' = console \cup r.printed
                 /\ audEvent' = <<r.event>>
                 /\ audPc' = "lock"
        ELSE /\ audPc' = "check"
             /\ UNCHANGED <<log, console, audEvent>>
    /\ UNCHANGED <<running, lock, suspicions, appended, keyVars, auxVars, plainFile, encFile,
                   camVars, schedPc, monPc, mainVars>>

\* main.py:68
AudioAcquire ==
    /\ Alive /\ audPc = "lock"
    /\ lock = "free"
    /\ lock' = "aud"
    /\ audPc' = "append"
    /\ UNCHANGED audEvent
    /\ UNCHANGED <<running, suspicions, appended, keyVars, auxVars, fileVars, console,
                   camVars, schedPc, monPc, mainVars>>

\* main.py:69 and the end of the with block
AudioAppend ==
    /\ Alive /\ audPc = "append"
    /\ suspicions' = [suspicions EXCEPT !.audio = store_append(@, audEvent[1])]
    /\ appended' = [appended EXCEPT !.audio = @ + 1]
    /\ lock' = "free"
    /\ audEvent' = NoEvent
    /\ audPc' = "check"
    /\ UNCHANGED <<running, keyVars, auxVars, fileVars, console, camVars, schedPc, monPc, mainVars>>

\* main.py:70-71: an exception of the recorder, the classifier or the logger
\* is caught and printed; the loop goes on.
AudioRaise ==
    /\ Alive /\ audPc = "record"
    /\ audPc' = "check"
    /\ UNCHANGED audEvent
    /\ UNCHANGED <<running, lock, suspicions, appended, keyVars, auxVars, fileVars, console,
                   camVars, schedPc, monPc, mainVars>>

(***************************************************************************)
(* encrypt_and_save (main.py:73-96)                                        *)
(***************************************************************************)
\* main.py:83
SchedLoopCheck ==
    /\ Alive /\ schedPc = "check"
    /\ schedPc' = IF running THEN "sleep" ELSE "exited"
    /\ UNCHANGED <<running, lock, suspicions, appended, keyVars, auxVars, fileVars, console,
                   camVars, audVars, monPc, mainVars>>

\* main.py:84-85: the sleep ends and the lock is taken (the flag is not
\* read again in between).
SchedAcquire ==
    /\ Alive /\ schedPc = "sleep"
    /\ lock = "free"
    /\ lock' = "sched"
    /\ schedPc' = "dump"
    /\ UNCHANGED <<running, suspicions, appended, keyVars, auxVars, fileVars, console,
                   camVars, audVars, monPc, mainVars>>

\* main.py:86-87
SchedDump ==
    /\ Alive /\ schedPc = "dump"
    /\ plainFile' = <<json_dump(suspicions)>>
    /\ schedPc' = "encrypt"
    /\ UNCHANGED <<running, lock, suspicions, appended, keyVars, auxVars, log, encFile, console,
                   camVars, audVars, monPc, mainVars>>

\* main.py:89-96 and the end of the with block
SchedEncryptWrite ==
    /\ Alive /\ schedPc = "encrypt"
    /\ encFile' = <<encrypt(key, plainFile[1])>>
    /\ lock' = "free"
    /\ schedPc' = "check"
    /\ UNCHANGED <<running, suspicions, appended, keyVars, auxVars, log, plainFile, console,
                   camVars, audVars, monPc, mainVars>>

\* encrypt_and_save has no try: an exception raised when a file is opened
\* leaves the with block (releasing the lock) and ends the thread.
SchedRaise ==
    /\ Alive /\ schedPc \in {"dump", "encrypt"}
    /\ lock' = "free"
    /\ schedPc' = "dead"
    /\ UNCHANGED <<running, suspicions, appended, keyVars, auxVars, fileVars, console,
                   camVars, audVars, monPc, mainVars>>

(***************************************************************************)
(* monitor_exit_keys (main.py:98-105): Ctrl+Shift+Q is seen by a poll.     *)
(***************************************************************************)
MonitorExitKeys ==
    /\ Alive /\ monPc = "poll"
    /\ running
    /\ running' = FALSE
    /\ monPc' = "exited"
    /\ UNCHANGED <<lock, suspicions, appended, keyVars, auxVars, fileVars, console,
                   camVars, audVars, schedPc, mainVars>>

(***************************************************************************)
(* start (main.py:107-122)                                                 *)
(***************************************************************************)
main_wait_inverted == running

\* main.py:115-116: the wait loop ends when the flag reads false.
main_wait_over == ~running

MainWait ==
    /\ mainPc = "wait"
    /\ main_wait_over
    /\ mainPc' = "retention"
    /\ UNCHANGED <<running, lock, suspicions, appended, keyVars, auxVars, fileVars, console,
                   camVars, audVars, schedPc, monPc, retentionCalls, audit>>

\* RetentionPolicy.apply: the module retention is not among the sources; the
\* policy is the no-op default, which purges none of the files of the session.
RetentionPolicy_apply(files) == files

\* main.py:118
MainRetention ==
    /\ mainPc = "retention"
    /\ retentionCalls' = retentionCalls + 1
    /\ LET kept == RetentionPolicy_apply([log |-> log, plain |-> plainFile, enc |-> encFile])
       IN  /\ log' = kept.log
           /\ plainFile' = kept.plain
           /\ encFile' = kept.enc
    /\ mainPc' = "settle"
    /\ UNCHANGED <<running, lock, suspicions, appended, keyVars, auxVars, console,
                   camVars, audVars, schedPc, monPc, audit>>

\* main.py:119
MainSettle ==
    /\ mainPc = "settle"
    /\ mainPc' = "handoff"
    /\ UNCHANGED <<running, lock, suspicions, appended, keyVars, auxVars, fileVars, console,
                   camVars, audVars, schedPc, monPc, retentionCalls, audit>>

\* main.py:120-122: the admin process is started and prompts for a password.
MainLaunch ==
    /\ mainPc = "handoff"
    /\ mainPc' = "admin"
    /\ UNCHANGED <<running, lock, suspicions, appended, keyVars, auxVars, fileVars, console,
                   camVars, audVars, schedPc, monPc, retentionCalls, audit>>

\* A daemon thread that has not returned dies with the process.
Killed(pc) == IF pc \in {"exited", "dead"} THEN pc ELSE "killed"

\* admin_control.py:69-72 with decrypt_suspicions; afterwards
\* subprocess.run returns, start() returns and the process ends.
AdminAudit ==
    /\ mainPc = "admin"
    /\ \E password \in Passwords :
        LET d == derive_key_from_password(password, saltFile, nextSalt)
        IN  /\ d.created => nextSalt <= MaxSalts
            /\ saltFile' = d.file
            /\ nextSalt' = IF d.created THEN nextSalt + 1 ELSE nextSalt
            /\ derived' = derived \cup {d.call}
            /\ audit' = decrypt_suspicions(password, d.key, encFile, screenshots)
    /\ mainPc' = "exit"
    /\ camPc' = Killed(camPc)
    /\ audPc' = Killed(audPc)
    /\ schedPc' = Killed(schedPc)
    /\ monPc' = Killed(monPc)
    /\ UNCHANGED <<running, lock, suspicions, appended, key, auxVars, fileVars, console,
                   capOpen, cheating_score, camScore, camEvent, screenshots, scoreDb,
                   audEvent, retentionCalls>>

\* The salt file is deleted between the session and the audit.
DeleteSalt ==
    /\ mainPc = "admin"
    /\ saltFile # <<>>
    /\ saltFile' = <<>>
    /\ UNCHANGED <<running, lock, suspicions, appended, key, auxVars, nextSalt, derived, fileVars,
                   console, camVars, audVars, schedPc, monPc, mainVars>>

Next ==
    \/ CameraLoopCheck \/ CameraDetect \/ CameraFrame \/ CameraRunEnd \/ CameraLog
    \/ CameraAcquire \/ CameraAppend \/ CameraRaise
    \/ AudioLoopCheck \/ AudioCycle \/ AudioAcquire \/ AudioAppend \/ AudioRaise
    \/ SchedLoopCheck \/ SchedAcquire \/ SchedDump \/ SchedEncryptWrite \/ SchedRaise
    \/ MonitorExitKeys
    \/ MainWait \/ MainRetention \/ MainSettle \/ MainLaunch
    \/ AdminAudit \/ DeleteSalt

Spec == Init /\ [][Next]_vars

(***************************************************************************)
(* Fairness of the scheduling: every thread that can take a step of its    *)
(* own code takes it; a thread waiting for the lock gets it if the lock    *)
(* keeps becoming free.  Nothing obliges the environment: frames that      *)
(* raise the score, the end of the camera loop (ESC, 'p', a failed read),  *)
(* exceptions, the exit keys, the administrator typing a password.         *)
(***************************************************************************)
Fairness ==
    /\ WF_vars(CameraLoopCheck) /\ WF_vars(CameraLog)
    /\ SF_vars(CameraAcquire) /\ WF_vars(CameraAppend)
    /\ WF_vars(AudioLoopCheck) /\ WF_vars(AudioCycle)
    /\ SF_vars(AudioAcquire) /\ WF_vars(AudioAppend)
    /\ WF_vars(SchedLoopCheck) /\ SF_vars(SchedAcquire)
    /\ WF_vars(SchedDump) /\ WF_vars(SchedEncryptWrite)
    /\ WF_vars(MainWait) /\ WF_vars(MainRetention)
    /\ WF_vars(MainSettle) /\ WF_vars(MainLaunch)

FairSpec == Init /\ [][Next]_vars /\ Fairness

(***************************************************************************)
(* SecureLogger.log_event called with arbitrary event records, next to the *)
(* two producers of a running session.                                     *)
(***************************************************************************)
TestEvents ==
    {[k \in K |-> <<"test">>] : K \in SUBSET {"id", "timestamp", "data"}}

LoggerCall ==
    \E event \in TestEvents :
        LET r == log_event(key, event)
        IN  /\ r.lines # <<>> => Len(log) < MaxVideo + MaxAudio + MaxTestLines
            /\ log' = log \o r.lines
            /\ console' = console \cup r.printed
            /\ UNCHANGED <<running, lock, suspicions, appended, keyVars, auxVars, plainFile, encFile,
                           camVars, audVars, schedPc, monPc, mainVars>>

NextLogger ==
    \/ LoggerCall
    \/ CameraLoopCheck \/ CameraDetect \/ CameraFrame \/ CameraRunEnd \/ CameraLog
    \/ CameraAcquire \/ CameraAppend \/ CameraRaise
    \/ AudioLoopCheck \/ AudioCycle \/ AudioAcquire \/ AudioAppend \/ AudioRaise

SpecLogger == Init /\ [][NextLogger]_vars

(***************************************************************************)
(* derive_key_from_password called again and again, with the salt file     *)
(* deleted at any time in between.                                         *)
(***************************************************************************)
KeyDerive ==
    \E password \in Passwords :
        LET d == derive_key_from_password(password, saltFile, nextSalt)
        IN  /\ d.created => nextSalt <= MaxSalts
            /\ saltFile' = d.file
            /\ nextSalt' = IF d.created THEN nextSalt + 1 ELSE nextSalt
            /\ derived' = derived \cup {d.call}
            /\ UNCHANGED <<running, lock, suspicions, appended, key, auxVars, fileVars, console,
                           camVars, audVars, schedPc, monPc, mainVars>>

KeyDeleteSalt ==
    /\ saltFile # <<>>
    /\ saltFile' = <<>>
    /\ UNCHANGED <<running, lock, suspicions, appended, key, auxVars, nextSalt, derived, fileVars,
                   console, camVars, audVars, schedPc, monPc, mainVars>>

NextKey == KeyDerive \/ KeyDeleteSalt

SpecKey == Init /\ [][NextKey]_vars

(***************************************************************************)
(* Helpers of the properties                                               *)
(***************************************************************************)
AllKeys == {"id", "timestamp", "data", "logged_at"}
RequiredKeys == {"id", "timestamp", "data"}

\* The aggregate read back from a snapshot ciphertext with the session key.
Recovered(file) == json_loads(decrypt(key, file[1]).text)

\* The event records of the durable log, line by line.
LogEvents == [i \in 1..Len(log) |-> LoadObject(decrypt(key, log[i]).text)]

Count(e, seq) == Cardinality({i \in 1..Len(seq) : seq[i] = e})

Exited == {"exited", "dead", "killed"}

(***************************************************************************)
(* C1: in a persistence tick the store lock is held only while the         *)
(* aggregate is read; when the tick reads the working file back, encrypts  *)
(* and writes suspicions.json.encrypted the lock is free, so no producer   *)
(* waits for the lock during that file I/O.                                *)
(***************************************************************************)
C1_LockHeldOnlyForSnapshot ==
    schedPc = "encrypt" =>
        /\ lock # "sched"
        /\ ~(lock = "sched" /\ (camPc = "lock" \/ audPc = "lock"))

(***************************************************************************)
(* C2: the store holds exactly one entry per completed append of each      *)
(* producer, and a snapshot just taken by a tick holds exactly the entries *)
(* appended so far, each of them a complete event record.                  *)
(***************************************************************************)
C2_ConcurrentAppendSafety ==
    /\ Len(suspicions.video) = appended.video
    /\ Len(suspicions.audio) = appended.audio
    /\ schedPc = "encrypt" =>
        LET snap == json_loads(plainFile[1])
        IN  /\ Len(snap.video) = appended.video
            /\ Len(snap.audio) = appended.audio
            /\ \A i \in 1..Len(snap.video) : DOMAIN snap.video[i] = AllKeys
            /\ \A i \in 1..Len(snap.audio) : DOMAIN snap.audio[i] = AllKeys

C2_Witness ==
    /\ schedPc = "encrypt"
    /\ appended.video >= 2 /\ appended.audio >= 1
    /\ Len(json_loads(plainFile[1]).video) = 2

(***************************************************************************)
(* C3: no record of the durable log and no event of the store lacks one of *)
(* the required fields id, timestamp, data.                                *)
(***************************************************************************)
C3_SchemaGate ==
    /\ \A i \in 1..Len(log) : RequiredKeys \subseteq DOMAIN LogEvents[i]
    /\ \A i \in 1..Len(suspicions.video) : RequiredKeys \subseteq DOMAIN suspicions.video[i]
    /\ \A i \in 1..Len(suspicions.audio) : RequiredKeys \subseteq DOMAIN suspicions.audio[i]

C3_Witness ==
    /\ "invalid_schema" \in console
    /\ \E i \in 1..Len(log) : LogEvents[i].id = <<"test">>
    /\ Len(suspicions.video) > 0 /\ Len(suspicions.audio) > 0

C5_TickDone == schedPc = "encrypt" /\ schedPc' = "check"

(***************************************************************************)
(* C5: the step that completes a persistence tick leaves a snapshot file   *)
(* that decrypts under the session key to exactly the aggregate of the     *)
(* store, both sequences in order.                                         *)
(***************************************************************************)
C5_SnapshotRoundTrip ==
    [][C5_TickDone =>
          /\ decrypt(key, encFile'[1]).ok
          /\ json_loads(decrypt(key, encFile'[1]).text) = suspicions']_vars

C5_Witness ==
    /\ encFile # <<>>
    /\ schedPc = "check"
    /\ Recovered(encFile) = suspicions
    /\ Len(suspicions.video) >= 2 /\ Len(suspicions.audio) >= 1

C6_WrongPasswordCase ==
    /\ audit.status # "none"
    /\ audit.password # SessionPassword
    /\ saltFile = <<key[2]>>
    /\ encFile # <<>>

(***************************************************************************)
(* C6: an audit with a password other than the session's, on the salt file *)
(* of the session, ends in the decryption failure and prints neither the   *)
(* decrypted log nor a score.                                              *)
(***************************************************************************)
C6_WrongPasswordFails ==
    C6_WrongPasswordCase =>
        audit.status = "error" /\ audit.log = <<>> /\ audit.scores = <<>>

C6_Witness == C6_WrongPasswordCase /\ audit.status = "error"

C7_KeyDeterminism ==
    \A a \in derived : \A b \in derived :
        a.salt = b.salt => ((a.password = b.password) <=> (a.key = b.key))

(***************************************************************************)
(* C7: no call of derive_key_from_password changes a salt file that        *)
(* exists; and among the keys derived with one salt, two are equal exactly *)
(* when their passwords are equal.                                         *)
(***************************************************************************)
C7_SaltNeverRegenerated ==
    /\ []C7_KeyDeterminism
    /\ [][saltFile # <<>> /\ saltFile' # <<>> => saltFile' = saltFile]_vars

C7_Witness ==
    /\ saltFile # <<>>
    /\ \E a \in derived : \E b \in derived :
          /\ a.salt = saltFile[1] /\ b.salt = saltFile[1]
          /\ a.password # b.password
          /\ a.salt # key[2]

\* The audit found no salt file and made a new one (the second salt drawn).
C8_MissingSaltCase ==
    /\ audit.status # "none"
    /\ audit.password = SessionPassword
    /\ nextSalt > 2
    /\ encFile # <<>>

(***************************************************************************)
(* C8: when the salt file was deleted before the audit, an audit with the  *)
(* session's password derives another key than the session's and ends in   *)
(* the decryption failure with nothing recovered.                          *)
(***************************************************************************)
C8_MissingSaltFails ==
    C8_MissingSaltCase =>
        /\ audit.status = "error" /\ audit.log = <<>> /\ audit.scores = <<>>
        /\ \A c \in derived : c.salt # key[2] => c.key # key

C8_Witness == C8_MissingSaltCase /\ audit.status = "error" /\ saltFile # <<key[2]>>

C9_Order ==
    {<<"wait", "retention">>, <<"retention", "settle">>, <<"settle", "handoff">>,
     <<"handoff", "admin">>, <<"admin", "exit">>}

C9_ShutdownState ==
    /\ mainPc # "wait" => ~running
    /\ retentionCalls = IF mainPc \in {"wait", "retention"} THEN 0 ELSE 1

(***************************************************************************)
(* C9: the main control path leaves its wait loop only with the running    *)
(* flag cleared, then calls RetentionPolicy.apply exactly once, then waits *)
(* for the settle time, then launches the admin process, in this order.    *)
(***************************************************************************)
C9_ShutdownOrder ==
    /\ []C9_ShutdownState
    /\ [][mainPc' # mainPc => <<mainPc, mainPc'>> \in C9_Order]_vars

C9_Witness == mainPc = "admin" /\ retentionCalls = 1 /\ ~running

C10_AllLoopsEnded ==
    /\ camPc \in Exited /\ audPc \in Exited /\ schedPc \in Exited /\ monPc \in Exited
    /\ mainPc # "wait"

(***************************************************************************)
(* C10: once the running flag is cleared, every loop (run_camera,          *)
(* run_audio, encrypt_and_save, monitor_exit_keys, the wait loop of start) *)
(* eventually ends.                                                        *)
(***************************************************************************)
C10_LoopsEndAfterFlagCleared == ~running ~> C10_AllLoopsEnded

(***************************************************************************)
(* Failures inside the loops                                               *)
(***************************************************************************)
\* C11: a failure during a persistence tick does not end the scheduler:
\* while the running flag is set the scheduler loop is still alive.
C11_SchedulerSurvivesTickFailure == running => schedPc # "dead"

\* C12: a failure inside a producer cycle is caught at the boundary of the
\* activity, in the camera producer and in the audio producer alike: while
\* the running flag is set neither producer thread has died.
C12_ProducersSurviveFailure == running => (camPc # "dead" /\ audPc # "dead")

(***************************************************************************)
(* The write of a log line at the granularity of the file interface        *)
(* (secure_logger.py:25-26).  log_event takes no lock and every call opens *)
(* a handle of its own: open(..., "ab") positions the handle at the end of *)
(* the file, the buffered line reaches the file as one write when the      *)
(* with block closes it.  Where the runtime appends atomically the line    *)
(* lands at the end the file has at that moment; where append mode is a    *)
(* seek followed by a write, it lands at the end the handle last saw and   *)
(* covers what another handle wrote there meanwhile.  Spec and SpecLogger  *)
(* take the write as one step; SpecLogWrite splits it.                     *)
(***************************************************************************)
\* what is left of a line whose head was overwritten: not a Fernet token
Torn == [key |-> <<>>, body |-> <<>>]

RECURSIVE Size(_)
Size(members) ==
    IF members = <<>> THEN 0 ELSE Len(members[1][2]) + Size(Tail(members))

\* the length of a line grows with the length of the serialized event
line_size(line) == Size(line.body)

\* The file after a write of `line` at line offset pos: a shorter line
\* leaves the tail of the line it lands on, a longer one runs into the next.
write_at(file, pos, line) ==
    IF pos >= Len(file)
    THEN Append(file, line)
    ELSE LET old  == file[pos + 1]
             head == SubSeq(file, 1, pos)
             rest == SubSeq(file, pos + 2, Len(file))
         IN  IF line_size(line) < line_size(old)
             THEN head \o <<line, Torn>> \o rest
             ELSE IF line_size(line) = line_size(old) \/ rest = <<>>
                  THEN head \o <<line>> \o rest
                  ELSE head \o <<line, Torn>> \o Tail(rest)

\* main.py:41-48 up to secure_logger.py:25
CameraLogOpen ==
    /\ Alive /\ camPc = "scored"
    /\ IF camScore > 0
       THEN LET r == log_event(key, camera_event(camScore))
            IN  /\ console' = console \cup r.printed
                /\ camEvent' = <<r.event>>
                /\ IF r.lines = <<>>
                   THEN camPc' = "lock" /\ UNCHANGED logPos
                   ELSE /\ camPc' = "logwrite"
                        /\ logPos' = [logPos EXCEPT !.cam = Len(log)]
       ELSE /\ camPc' = "check"
            /\ UNCHANGED <<console, camEvent, logPos>>
    /\ UNCHANGED <<capOpen, cheating_score, camScore, screenshots, scoreDb>>
    /\ UNCHANGED <<running, lock, suspicions, appended, keyVars, probe, fileVars,
                   audVars, schedPc, monPc, mainVars>>

\* secure_logger.py:26 and the close of the handle
CameraLogWrite ==
    /\ Alive /\ camPc = "logwrite"
    /\ \E atomic \in BOOLEAN :
        log' = write_at(log, IF atomic THEN Len(log) ELSE logPos.cam,
                        encrypt(key, JsonObject(camEvent[1])))
    /\ camPc' = "lock"
    /\ UNCHANGED <<capOpen, cheating_score, camScore, camEvent, screenshots, scoreDb>>
    /\ UNCHANGED <<running, lock, suspicions, appended, keyVars, auxVars, plainFile,
                   encFile, console, audVars, schedPc, monPc, mainVars>>

\* main.py:56-66 up to secure_logger.py:25
AudioLogOpen ==
    /\ Alive /\ audPc = "record"
    /\ \E label \in Labels :
        IF label \in AcceptedLabels
        THEN LET r == log_event(key, audio_event(label))
             IN  /\ console' = console \cup r.printed
                 /\ audEvent' = <<r.event>>
                 /\ IF r.lines = <<>>
                    THEN audPc' = "lock" /\ UNCHANGED logPos
                    ELSE /\ audPc' = "logwrite"
                         /\ logPos' = [logPos EXCEPT !.aud = Len(log)]
        ELSE /\ audPc' = "check"
             /\ UNCHANGED <<console, audEvent, logPos>>
    /\ UNCHANGED <<running, lock, suspicions, appended, keyVars, probe, fileVars,
                   camVars, schedPc, monPc, mainVars>>

\* secure_logger.py:26 and the close of the handle
AudioLogWrite ==
    /\ Alive /\ audPc = "logwrite"
    /\ \E atomic \in BOOLEAN :
        log' = write_at(log, IF atomic THEN Len(log) ELSE logPos.aud,
                        encrypt(key, JsonObject(audEvent[1])))
    /\ audPc' = "lock"
    /\ UNCHANGED audEvent
    /\ UNCHANGED <<running, lock, suspicions, appended, keyVars, auxVars, plainFile,
                   encFile, console, camVars, schedPc, monPc, mainVars>>

NextLogWrite ==
    \/ CameraLoopCheck \/ CameraDetect \/ CameraFrame \/ CameraRunEnd
    \/ CameraLogOpen \/ CameraLogWrite \/ CameraAcquire \/ CameraAppend
    \/ AudioLoopCheck \/ AudioLogOpen \/ AudioLogWrite
    \/ AudioAcquire \/ AudioAppend

SpecLogWrite == Init /\ [][NextLogWrite]_vars

\* events whose log_event call has returned: those in the store and those
\* a producer holds between log_event and the store append
Logged ==
    Len(suspicions.video) + Len(suspicions.audio)
      + (IF camPc \in {"lock", "append"} THEN 1 ELSE 0)
      + (IF audPc \in {"lock", "append"} THEN 1 ELSE 0)

\* C13: appends of log_event are serialized: with the camera and the audio
\* producer logging concurrently, the log is always a sequence of complete
\* lines (each a whole ciphertext), one per logged event.
C13_LogLinesComplete ==
    /\ \A i \in 1..Len(log) : decrypt(key, log[i]).ok
    /\ Len(log) = Logged

(***************************************************************************)
(* SecureLogger.log_event called on its own, the caller keeping the record *)
(* it passed and looking at it after the call.                             *)
(***************************************************************************)
ProbeEvents == TestEvents \cup {camera_event(1), audio_event("whisper")}

LoggerProbe ==
    \E event \in ProbeEvents :
        LET r == log_event(key, event)
        IN  /\ r.lines # <<>> => Len(log) < MaxVideo + MaxAudio + MaxTestLines
            /\ log' = log \o r.lines
            /\ console' = console \cup r.printed
            /\ probe' = <<event, r.event>>
            /\ UNCHANGED <<running, lock, suspicions, appended, keyVars, logPos,
                           plainFile, encFile, camVars, audVars, schedPc, monPc,
                           mainVars>>

SpecLoggerUnit == Init /\ [][LoggerProbe]_vars

\* C14: a call of log_event with an event that fails validation changes
\* nothing: the log file is as before and the event record is as the caller
\* passed it (no logged_at added).
C14_InvalidEventNoMutation ==
    [][(probe' # <<>> /\ ~validate(probe'[1]))
          => (log' = log /\ probe'[2] = probe'[1])]_vars

C14_Witness ==
    /\ probe # <<>> /\ ~validate(probe[1])
    /\ "invalid_schema" \in console
    /\ log # <<>>

(***************************************************************************)
(* The scores of the audit                                                 *)
(***************************************************************************)
\* an audit that succeeded on a snapshot holding the whole store
C15_AuditOfWholeStore ==
    /\ audit.status = "ok"
    /\ Recovered(encFile) = suspicions

\* C15 as stated: with v video and a audio events inserted before the tick,
\* the audited aggregate has v video and a audio entries and the net score
\* reported is v + a.
C15_NetScoreIsEventCount ==
    C15_AuditOfWholeStore =>
        /\ Len(audit.log[1].video) = Len(suspicions.video)
        /\ Len(audit.log[1].audio) = Len(suspicions.audio)
        /\ audit.scores[3] = Len(suspicions.video) + Len(suspicions.audio)

\* C15 amended: the audited aggregate has v video and a audio entries, and
\* the net score reported is a plus the number of .jpg files found in the
\* screenshots directory, whatever the number of video events.
C15_NetScoreIsArtifactsPlusAudio ==
    C15_AuditOfWholeStore =>
        /\ Len(audit.log[1].video) = Len(suspicions.video)
        /\ Len(audit.log[1].audio) = Len(suspicions.audio)
        /\ audit.scores[3] = video_score(screenshots) + Len(suspicions.audio)

C15_Witness ==
    /\ C15_AuditOfWholeStore
    /\ Len(suspicions.video) = 2 /\ Len(suspicions.audio) = 1
    /\ audit.scores[3] = 2

(***************************************************************************)
(* The audit on a machine that was used before: CameraDetector.__init__    *)
(* (neurosentinel_camera.py:34-35) creates screenshots/ only when it is    *)
(* absent and nothing ever empties it, so the directory starts as an       *)
(* earlier session left it; it may be removed between session and audit.   *)
(***************************************************************************)
OldScreenshots == {<<0>>, <<1>>}

InitAudit ==
        LET d == derive_key_from_password(SessionPassword, <<>>, 1)
        IN  /\ key = d.key
            /\ saltFile = d.file
            /\ nextSalt = 2
            /\ derived = {d.call}
            /\ running = TRUE
            /\ lock = "free"
            /\ suspicions = [video |-> <<>>, audio |-> <<>>]
            /\ appended = [video |-> 0, audio |-> 0]
            /\ log = <<>>
            /\ plainFile = <<>>
            /\ encFile = <<>>
            /\ console = {}
            /\ camPc = "check" /\ capOpen = TRUE /\ cheating_score = 0
            /\ camScore = 0 /\ camEvent = NoEvent /\ scoreDb = <<>>
            /\ screenshots \in OldScreenshots
            /\ audPc = "check" /\ audEvent = NoEvent
            /\ schedPc = "check"
            /\ monPc = "poll"
            /\ mainPc = "wait" /\ retentionCalls = 0
            /\ audit = NoAudit
            /\ logPos = [cam |-> 0, aud |-> 0]
            /\ probe = <<>>

\* The screenshots directory is removed between the session and the audit.
RemoveScreenshotsDir ==
    /\ mainPc = "admin"
    /\ screenshots # <<>>
    /\ screenshots' = <<>>
    /\ UNCHANGED <<running, lock, suspicions, appended, keyVars, auxVars, fileVars,
                   console, camPc, capOpen, cheating_score, camScore, camEvent,
                   scoreDb, audVars, schedPc, monPc, mainVars>>

NextAudit ==
    \/ CameraLoopCheck \/ CameraDetect \/ CameraFrame \/ CameraRunEnd \/ CameraLog
    \/ CameraAcquire \/ CameraAppend
    \/ AudioLoopCheck \/ AudioCycle \/ AudioAcquire \/ AudioAppend
    \/ SchedLoopCheck \/ SchedAcquire \/ SchedDump \/ SchedEncryptWrite
    \/ MonitorExitKeys
    \/ MainWait \/ MainRetention \/ MainSettle \/ MainLaunch
    \/ AdminAudit \/ RemoveScreenshotsDir

SpecAudit == InitAudit /\ [][NextAudit]_vars

\* the screenshots this session stored that are still on disk
SessionArtifacts == IF screenshots = <<>> THEN 0 ELSE cheating_score

\* C16: on a successful audit the video score is the number of stored
\* visual-evidence artifacts of the audited session, the audio score the
\* number of audio events of the decrypted aggregate, the net score their sum.
C16_ScoresOfTheSession ==
    audit.status = "ok" =>
        /\ audit.scores[1] = SessionArtifacts
        /\ audit.scores[2] = Len(audit.log[1].audio)
        /\ audit.scores[3] = audit.scores[1] + audit.scores[2]

PlaintextEvents ==
    IF plainFile = <<>>
    THEN <<>>
    ELSE json_loads(plainFile[1]).video \o json_loads(plainFile[1]).audio

\* C18: no file of the session pipeline holds event data in plaintext: the
\* log and the snapshot are ciphertext, and between two ticks the working
\* file of the scheduler, if left on disk, holds no event.
C18_NoPlaintextEventData ==
    /\ \A i \in 1..Len(log) : DOMAIN log[i] = {"key", "body"}
    /\ encFile # <<>> => DOMAIN encFile[1] = {"key", "body"}
    /\ schedPc # "encrypt" => PlaintextEvents = <<>>

(***************************************************************************)
(* The producers with a classifier whose reasons may hold any text, the    *)
(* marker included (the classifier is a collaborator of run_audio; the     *)
(* camera event holds a number only).                                      *)
(***************************************************************************)
AnyReasons ==
    {<<"reasons">>, Marker, <<"s", "e", "c">> \o Marker \o <<"r", "e", "t">>}

\* main.py:56-67
AudioCycleReasons ==
    /\ Alive /\ audPc = "record"
    /\ \E label \in Labels, reasons \in AnyReasons :
        IF label \in AcceptedLabels
        THEN LET r == log_event(key, audio_event_with(label, reasons))
             IN  /\ log' = log \o r.lines
                 /\ console' = console \cup r.printed
                 /\ audEvent' = <<r.event>>
                 /\ audPc' = "lock"
        ELSE /\ audPc' = "check"
             /\ UNCHANGED <<log, console, audEvent>>
    /\ UNCHANGED <<running, lock, suspicions, appended, keyVars, auxVars, plainFile,
                   encFile, camVars, schedPc, monPc, mainVars>>

NextRedact ==
    \/ CameraLoopCheck \/ CameraDetect \/ CameraRunEnd \/ CameraLog
    \/ CameraAcquire \/ CameraAppend
    \/ AudioLoopCheck \/ AudioCycleReasons \/ AudioAcquire \/ AudioAppend

SpecRedact == Init /\ [][NextRedact]_vars

Contains(text, m) ==
    \E i \in 1..Len(text) : StartsWith(SubSeq(text, i, Len(text)), m)

\* the events of the log, of the store, and those a producer has handed to
\* the logger and the synchronizer and not yet to the store
PersistedEvents ==
    {LogEvents[i] : i \in 1..Len(log)}
      \cup {suspicions.video[i] : i \in 1..Len(suspicions.video)}
      \cup {suspicions.audio[i] : i \in 1..Len(suspicions.audio)}
      \cup {camEvent[i] : i \in 1..Len(camEvent)}
      \cup {audEvent[i] : i \in 1..Len(audEvent)}

\* C19: the data of every event has gone through redact before log_event,
\* the synchronizer and the store receive it: no event of the log or of the
\* store holds the marker.
C19_RedactedBeforePersistence ==
    \A e \in PersistedEvents : ~Contains(e.data, Marker)

C19_Witness ==
    /\ \E i \in 1..Len(log) : Contains(LogEvents[i].data, Placeholder)
    /\ \E i \in 1..Len(suspicions.audio) :
          Contains(suspicions.audio[i].data, Placeholder)

(***************************************************************************)
(* Redactor.redact called on its own, twice in a row, on texts built from  *)
(* the marker, its halves, the placeholder and another character.          *)
(***************************************************************************)
MaxPieces == 3

Pieces == {Marker, <<"s", "e", "c">>, <<"r", "e", "t">>, Placeholder, <<"x">>}

RECURSIVE Texts(_)
Texts(n) ==
    IF n = 0
    THEN {<<>>}
    ELSE LET shorter == Texts(n - 1)
         IN  shorter \cup {p \o t : p \in Pieces, t \in shorter}

InitRedactor ==
        LET d == derive_key_from_password(SessionPassword, <<>>, 1)
        IN  /\ key = d.key
            /\ saltFile = d.file
            /\ nextSalt = 2
            /\ derived = {d.call}
            /\ running = TRUE
            /\ lock = "free"
            /\ suspicions = [video |-> <<>>, audio |-> <<>>]
            /\ appended = [video |-> 0, audio |-> 0]
            /\ log = <<>>
            /\ plainFile = <<>>
            /\ encFile = <<>>
            /\ console = {}
            /\ camPc = "check" /\ capOpen = TRUE /\ cheating_score = 0
            /\ camScore = 0 /\ camEvent = NoEvent /\ screenshots = <<0>> /\ scoreDb = <<>>
            /\ audPc = "check" /\ audEvent = NoEvent
            /\ schedPc = "check"
            /\ monPc = "poll"
            /\ mainPc = "wait" /\ retentionCalls = 0
            /\ audit = NoAudit
            /\ logPos = [cam |-> 0, aud |-> 0]
            /\ probe \in {<<text>> : text \in Texts(MaxPieces)}

\* redact.py:6-7 applied to the result of the call before
RedactCall ==
    /\ Len(probe) < 3
    /\ probe' = Append(probe, redact(probe[Len(probe)]))
    /\ UNCHANGED <<running, lock, suspicions, appended, keyVars, logPos, fileVars,
                   console, camVars, audVars, schedPc, monPc, mainVars>>

SpecRedactor == InitRedactor /\ [][RedactCall]_vars

\* C20: redact is idempotent, redact(redact(X)) = redact(X) for every text
\* X, and the result of redact holds no occurrence of the marker.
C20_RedactIdempotent ==
    /\ Len(probe) >= 2 => ~Contains(probe[2], Marker)
    /\ Len(probe) = 3 => probe[3] = probe[2]

C20_Witness ==
    /\ Len(probe) = 3
    /\ probe[1] = <<"s", "e", "c">> \o Marker \o <<"r", "e", "t">>
    /\ probe[2] = <<"s", "e", "c">> \o Placeholder \o <<"r", "e", "t">>

(***************************************************************************)
(* The store and its snapshots with audio events that differ from one      *)
(* another (the reasons of the classifier vary) and room for one more of   *)
(* them, so that the order of the entries of a category can be told.       *)
(***************************************************************************)
\* main.py:54
AudioLoopCheckWide ==
    /\ Alive /\ audPc = "check"
    /\ IF ~running
       THEN audPc' = "exited"
       ELSE /\ Len(suspicions.audio) < MaxAudio + 1
            /\ audPc' = "record"
    /\ UNCHANGED audEvent
    /\ UNCHANGED <<running, lock, suspicions, appended, keyVars, auxVars, fileVars, console,
                   camVars, schedPc, monPc, mainVars>>

NextStore ==
    \/ CameraLoopCheck \/ CameraDetect \/ CameraRunEnd \/ CameraLog
    \/ CameraAcquire \/ CameraAppend
    \/ AudioLoopCheckWide \/ AudioCycleReasons \/ AudioAcquire \/ AudioAppend
    \/ SchedLoopCheck \/ SchedAcquire \/ SchedDump \/ SchedEncryptWrite

SpecStore == Init /\ [][NextStore]_vars

IsPrefix(s, t) == Len(s) <= Len(t) /\ SubSeq(t, 1, Len(s)) = s

\* C21: within a category the store only grows at its end, and of two
\* snapshots written one after the other the earlier one's sequence of a
\* category is a prefix of the later one's.
C21_AppendOnlyInArrivalOrder ==
    [][/\ IsPrefix(suspicions.video, suspicions'.video)
       /\ IsPrefix(suspicions.audio, suspicions'.audio)
       /\ (encFile # <<>> /\ encFile' # encFile) =>
             /\ IsPrefix(Recovered(encFile).video, Recovered(encFile').video)
             /\ IsPrefix(Recovered(encFile).audio, Recovered(encFile').audio)]_vars

\* a snapshot written at the end of a tick holds two different audio events
\* and a video event
C21_Witness ==
    /\ encFile # <<>> /\ schedPc = "check"
    /\ Len(Recovered(encFile).audio) = 2
    /\ Recovered(encFile).audio[1] # Recovered(encFile).audio[2]
    /\ Len(Recovered(encFile).video) >= 1

(***************************************************************************)
(* The handoff to the admin process                                        *)
(***************************************************************************)
\* C22: once the admin process is launched no persistence tick is in flight
\* or still to come, so encrypt_and_save does not write the snapshot file
\* while the auditor reads it.
C22_NoTickAfterHandoff ==
    mainPc = "admin" => schedPc \notin {"sleep", "dump", "encrypt"}

\* C23: at the moment the admin process is launched the snapshot file exists
\* and its plaintext holds every event that is in the store at that moment.
C23_SnapshotCompleteAtHandoff ==
    [][(mainPc = "handoff" /\ mainPc' = "admin") =>
          /\ encFile' # <<>>
          /\ IsPrefix(suspicions'.video, Recovered(encFile').video)
          /\ IsPrefix(suspicions'.audio, Recovered(encFile').audio)]_vars

(***************************************************************************)
(* The camera producer and the running flag                                *)
(***************************************************************************)
\* C24: run_camera stores a video event only for a newly reported
\* suspicion: the number of video events of the store never exceeds the
\* cheating_score of the camera.
C24_VideoEventsWithinScore == Len(suspicions.video) <= cheating_score

\* C25: the running flag is true from the start until monitor_exit_keys
\* observes the exit keys, changes only there, from true to false, and the
\* session leaves its wait loop only with the flag cleared, whatever has
\* ended the camera loop or a thread.
C25_FlagClearedOnlyByMonitor ==
    /\ [](monPc = "poll" => running)
    /\ [][/\ running' # running =>
               (running /\ ~running' /\ monPc = "poll" /\ monPc' = "exited")
          /\ (mainPc = "wait" /\ mainPc' # "wait") => ~running]_vars

C25_Witness ==
    /\ running /\ mainPc = "wait"
    /\ ~capOpen /\ camPc = "dead" /\ schedPc = "dead"

====
